---- MODULE Spec2Model ----
(***************************************************************************)
(* beman::inplace_vector<T, N>: a fixed-capacity sequence whose elements   *)
(* live inside the object (include/beman/inplace_vector/inplace_vector.hpp)*)
(*                                                                         *)
(* The model follows the __non_trivial storage variant (and __zero_sized   *)
(* when the capacity is 0): a buffer of __N slots plus the count __size_.  *)
(* A slot holds either an element object or nothing (Dead: raw storage).   *)
(* The element type is a value type with a distinguished moved-from state, *)
(* equal to its value-initialised state T{} (as std::string or             *)
(* std::unique_ptr, both instantiated by the tests): values are 0..MaxVal, *)
(* 0 being T{}.  Pointers, iterators and references into a container are   *)
(* indices (begin() = 0), the null pointer is Null.                        *)
(*                                                                         *)
(* A member function is an operator on an execution record                 *)
(*   [data, size, err, ret, ev]                                            *)
(* the two storage fields, the exception in flight (err), the value        *)
(* returned (ret) and the constructor/destructor calls made on element     *)
(* objects so far (ev).  A call is one action: it runs the whole member    *)
(* function on the receiver and stores the outcome; Return hands control   *)
(* back to the caller, who issues the next call.                           *)
(***************************************************************************)
EXTENDS Integers, Sequences, FiniteSets, TLC

\* Bounds of the model.
MaxN == 3      \* largest capacity __N instantiated
MaxVal == 1    \* element values are 0..MaxVal
MaxSrc == 2    \* longest source range / largest count handed to a bulk call
Near == 20     \* capacities this close to 2^8 - 1 and 2^16 - 1 are instantiated as well

Dead == -1     \* a slot of the buffer holding no object
Null == -1     \* nullptr

T == 0..MaxVal
DefaultT == 0            \* T{}
MovedFrom(x) == DefaultT \* state of an element object after std::move(x) was consumed

Ids == {1, 2}            \* the container objects of a run

VARIABLES
  __N,     \* the capacity the run instantiates the template with
  vec,     \* vec[c] = [data, size]: storage of container object c
  alive,   \* alive[c]: c is within its lifetime (constructed, not destroyed)
  pc,      \* "ready": the caller is about to call; "done": a call has just completed
  call,    \* the call that has just completed (NoCall when ready)
  pre,     \* vec as it was when that call started
  err,     \* the exception the call ended with, or "none"
  ret,     \* the value the call returned
  ev,      \* element constructor/destructor calls the call made on the receiver
  ctor,    \* ctor[c]: the constructor that started c's lifetime ("none" outside it)
  pushes,  \* pushes[c]: the values of the successful push_back calls on c, while c has
           \* seen nothing but push_back since it was default-constructed
  swapped, \* the two objects have exchanged their contents by swap since the last of
           \* them was constructed
  source,  \* the source range of the call as the call left it
  tmp      \* buffer of the temporary object the call created, as its destructor left it

vars == <<__N, vec, alive, pc, call, pre, err, ret, ev, ctor, pushes, swapped, source, tmp>>

Slots == 0..(__N - 1)

\* __non_trivial::__data_{} / __size_ = 0: a buffer without objects, count 0
EmptyStorage == [data |-> [i \in Slots |-> Dead], size |-> 0]

\* the execution record of a call starting on storage v
Start(v) ==
  [data |-> v.data, size |-> v.size, err |-> "none", ret |-> Null, ev |-> <<>>,
   tmp |-> EmptyStorage, src |-> <<>>]
Storage(m) == [data |-> m.data, size |-> m.size]

Throw(m, e) == [m EXCEPT !.err = e]
Returns(m, r) == [m EXCEPT !.ret = r]

\* ---- the type of the count field ----
\* k < 2^w, computed 16 bits at a time
RECURSIVE Below2Pow(_, _)
Below2Pow(k, w) ==
  IF w <= 16 THEN k < 2^w
  ELSE Below2Pow(k \div 65536, w - 16)

\* n < numeric_limits<uintW_t>::max(), that is n < 2^w - 1
LessThanMax(n, w) == Below2Pow(n + 1, w)

\* __smallest_size_t<N>: the width in bits of the type selected (size_t has 64)
__smallest_size_t(n) ==
  IF LessThanMax(n, 8) THEN 8
  ELSE IF LessThanMax(n, 16) THEN 16
  ELSE IF LessThanMax(n, 32) THEN 32
  ELSE IF LessThanMax(n, 64) THEN 64
  ELSE 64

\* __size_type of the storage selected for N: uint8_t in __zero_sized,
\* __smallest_size_t<N> in the others
__size_type(n) == IF n = 0 THEN 8 ELSE __smallest_size_t(n)

\* ---- capacity and iterators ----
capacity == __N
max_size == __N
size(m) == m.size
empty(m) == size(m) = 0
begin(m) == 0
end(m) == begin(m) + size(m)

\* variant: the storage for N == 0 hands out the start of a buffer like the others
data_nonnull(m) == begin(m)

\* data(): __data(), which is nullptr for the __zero_sized storage (N == 0) and the start
\* of the buffer otherwise
data(m) == IF __N = 0 THEN Null ELSE begin(m)

\* variant: a request for exactly N is refused
reserve_ge(m, n) == IF n >= __N THEN Throw(m, "bad_alloc") ELSE Returns(m, Null)

\* reserve(size_type n)
reserve(m, n) == IF n > __N THEN Throw(m, "bad_alloc") ELSE Returns(m, Null)

\* shrink_to_fit() {}
shrink_to_fit(m) == Returns(m, Null)

\* the elements of a container, in order, as a sequence (what iteration over it yields)
Elems(m) == [i \in 1..m.size |-> m.data[i - 1]]

\* __index(rng, i), operator[], front(), back(): references are indices
__index(m, i) == i
front(m) == __index(m, 0)
back(m) == __index(m, size(m) - 1)

\* variant: the sizes are not compared, only the elements up to x's size
operator_eq_nosize(x, y) ==
  \A i \in 0..(size(x) - 1) : i < size(y) /\ x.data[i] = y.data[i]

\* operator==(x, y): size() == size() && std::ranges::equal(x, y)
operator_eq(x, y) ==
  size(x) = size(y) /\ \A i \in 0..(size(x) - 1) : x.data[i] = y.data[i]

\* a != b is rewritten by the language as !(a == b)
operator_ne(x, y) == ~operator_eq(x, y)

\* operator<=>(x, y): the sizes decide first; for equal sizes the loop computes
\* all_equal (no index with x[i] < y[i]) and all_less (no index with x[i] == y[i])
operator_cmp(x, y) ==
  IF size(x) < size(y) THEN -1
  ELSE IF size(x) > size(y) THEN 1
  ELSE LET all_equal == \A i \in 0..(size(x) - 1) : ~(x.data[i] < y.data[i])
           all_less == \A i \in 0..(size(x) - 1) : ~(x.data[i] = y.data[i])
       IN IF all_equal THEN 0
          ELSE IF all_less THEN -1
          ELSE 1

\* ---- storage protocol ----
__unsafe_set_size(m, new_size) == [m EXCEPT !.size = new_size]

construct_at(m, p, x) ==
  [m EXCEPT !.data[p] = x, !.ev = Append(@, [what |-> "construct", at |-> p])]

\* variant: the loop stops one element before last
RECURSIVE __unsafe_destroy_short(_, _, _)
__unsafe_destroy_short(m, first, last) ==
  IF first = last \/ first + 1 = last THEN m
  ELSE __unsafe_destroy_short(
         [m EXCEPT !.data[first] = Dead, !.ev = Append(@, [what |-> "destroy", at |-> first])],
         first + 1, last)

RECURSIVE __unsafe_destroy(_, _, _)
__unsafe_destroy(m, first, last) ==
  IF first = last THEN m
  ELSE __unsafe_destroy(
         [m EXCEPT !.data[first] = Dead, !.ev = Append(@, [what |-> "destroy", at |-> first])],
         first + 1, last)

\* ---- push_back family ----
\* variant: the element is constructed at begin() instead of end()
unchecked_emplace_back_front(m, x) ==
  LET c == construct_at(m, begin(m), x)
      s == __unsafe_set_size(c, size(c) + 1)
  IN Returns(s, back(s))

\* variant: the count is advanced before the element is constructed at end()
unchecked_emplace_back_sizefirst(m, x) ==
  LET s == __unsafe_set_size(m, size(m) + 1)
      c == construct_at(s, end(s), x)
  IN Returns(c, back(c))

unchecked_emplace_back(m, x) ==
  LET c == construct_at(m, end(m), x)
      s == __unsafe_set_size(c, size(c) + 1)
  IN Returns(s, back(s))

\* variant: the capacity test is > instead of ==
try_emplace_back_gt(m, x) ==
  IF size(m) > capacity THEN Returns(m, Null)
  ELSE unchecked_emplace_back(m, x)

try_emplace_back(m, x) ==
  IF size(m) = capacity THEN Returns(m, Null)
  ELSE unchecked_emplace_back(m, x)

\* variant: the null result of try_emplace_back is not turned into bad_alloc
emplace_back_nothrow(m, x) == Returns(try_emplace_back(m, x), Null)

emplace_back(m, x) ==
  LET r == try_emplace_back(m, x)
  IN IF r.ret = Null THEN Throw(r, "bad_alloc") ELSE Returns(r, Null)

push_back(m, x) ==
  LET r == emplace_back(m, x)
  IN IF r.err # "none" THEN r ELSE Returns(r, back(r))

try_push_back(m, x) == try_emplace_back(m, x)

unchecked_push_back(m, x) == unchecked_emplace_back(m, x)

\* for (auto&& e : rg) { if (size() == capacity()) throw bad_alloc(); emplace_back(e); }
RECURSIVE append_each(_, _)
append_each(m, rg) ==
  IF rg = <<>> THEN m
  ELSE IF size(m) = capacity THEN Throw(m, "bad_alloc")
  ELSE append_each(emplace_back(m, Head(rg)), Tail(rg))

\* variant: the size of a sized range is not looked at before the loop
append_range_nocheck(m, rg, sized) == Returns(append_each(m, rg), Null)

\* append_range(R&& rg); sized tells whether R models ranges::sized_range
append_range(m, rg, sized) ==
  IF sized /\ size(m) + Len(rg) > capacity THEN Throw(m, "bad_alloc")
  ELSE Returns(append_each(m, rg), Null)

\* ---- insertion at a position: append, then rotate into place ----
\* std::rotate(first, middle, last): [middle, last) comes first, then [first, middle)
rotate(m, first, middle, last) ==
  [m EXCEPT !.data = [i \in DOMAIN m.data |->
     IF first <= i /\ i < last
     THEN IF i - first < last - middle
          THEN m.data[middle + (i - first)]
          ELSE m.data[first + ((i - first) - (last - middle))]
     ELSE m.data[i]]]

\* variant: the last element is moved out of the way before the capacity is tested
emplace_shift(m, position, x) ==
  IF size(m) = capacity /\ size(m) > 0
  THEN Throw([m EXCEPT !.data[size(m) - 1] = MovedFrom(@)], "bad_alloc")
  ELSE LET b == end(m)
           r == emplace_back(m, x)
       IN IF r.err # "none" THEN r
          ELSE LET pos == begin(r) + (position - begin(r))
               IN Returns(rotate(r, pos, b, end(r)), pos)

emplace(m, position, x) ==
  LET b == end(m)
      r == emplace_back(m, x)
  IN IF r.err # "none" THEN r
     ELSE LET pos == begin(r) + (position - begin(r))
          IN Returns(rotate(r, pos, b, end(r)), pos)

\* variant: room is made at position first (the tail moved up by one) and x is read
\* after that, as an implementation that shifts before constructing would
emplace_ref_shiftfirst(m, position, i) ==
  IF size(m) = capacity THEN Throw(m, "bad_alloc")
  ELSE LET s == [m EXCEPT !.data = [j \in DOMAIN m.data |->
                    IF position < j /\ j <= size(m) THEN m.data[j - 1]
                    ELSE IF j = position /\ position < size(m) THEN MovedFrom(m.data[j])
                    ELSE m.data[j]]]
           c == construct_at(s, position, s.data[i])
       IN Returns(__unsafe_set_size(c, size(c) + 1), position)

\* emplace(position, x) where x is a reference to element i of *this: x is read when
\* emplace_back constructs the new element, which is the first thing emplace does
emplace_ref(m, position, i) ==
  LET b == end(m)
      r == emplace_back(m, m.data[__index(m, i)])
  IN IF r.err # "none" THEN r
     ELSE LET pos == begin(r) + (position - begin(r))
          IN Returns(rotate(r, pos, b, end(r)), pos)

\* for (size_type i = 0; i < n; ++i) emplace_back(x);
RECURSIVE emplace_back_n(_, _, _)
emplace_back_n(m, n, x) ==
  IF n = 0 \/ m.err # "none" THEN m
  ELSE emplace_back_n(emplace_back(m, x), n - 1, x)

\* for (auto&& e : x) emplace_back(e);
RECURSIVE emplace_back_each(_, _)
emplace_back_each(m, src) ==
  IF src = <<>> \/ m.err # "none" THEN m
  ELSE emplace_back_each(emplace_back(m, Head(src)), Tail(src))

\* for (; first != last; ++first) emplace_back(std::move(*first));  from element i of
\* the source m.src on.  mut: the iterator's reference type is T&, so std::move(*first)
\* is a T&& and the element is move-constructed from the source element; otherwise it
\* is a const T&& and the element is copy-constructed.  An emplace_back that throws has
\* not touched its argument.
RECURSIVE emplace_back_moved(_, _, _)
emplace_back_moved(m, i, mut) ==
  IF i > Len(m.src) \/ m.err # "none" THEN m
  ELSE LET r == emplace_back(m, m.src[i])
       IN IF r.err # "none" THEN r
          ELSE emplace_back_moved(
                 [r EXCEPT !.src[i] = IF mut THEN MovedFrom(@) ELSE @], i + 1, mut)

\* insert(const_iterator, size_type n, const T& x)
insert_n(m, position, n, x) ==
  LET b == end(m)
      r == emplace_back_n(m, n, x)
  IN IF r.err # "none" THEN r
     ELSE LET pos == begin(r) + (position - begin(r))
          IN Returns(rotate(r, pos, b, end(r)), pos)

\* variant: when the loop throws, the elements it appended are destroyed again
insert_iter_rollback(m, position, src, ra, mut) ==
  LET s == [m EXCEPT !.src = src]
  IN IF ra /\ size(s) + Len(src) > capacity THEN Throw(s, "bad_alloc")
     ELSE LET b == end(s)
              r == emplace_back_moved(s, 1, mut)
          IN IF r.err # "none"
             THEN __unsafe_set_size(__unsafe_destroy(r, b, end(r)), b - begin(r))
             ELSE LET pos == begin(r) + (position - begin(r))
                  IN Returns(rotate(r, pos, b, end(r)), pos)

\* variant: the appended elements are not rotated into place
insert_iter_norotate(m, position, src, ra, mut) ==
  LET s == [m EXCEPT !.src = src]
  IN IF ra /\ size(s) + Len(src) > capacity THEN Throw(s, "bad_alloc")
     ELSE LET r == emplace_back_moved(s, 1, mut)
          IN IF r.err # "none" THEN r
             ELSE Returns(r, begin(r) + (position - begin(r)))

\* insert(const_iterator, InputIterator first, InputIterator last); src is [first, last),
\* ra tells whether InputIterator models random_access_iterator, mut whether its
\* reference type is T& (a source of mutable elements)
insert_iter(m, position, src, ra, mut) ==
  LET s == [m EXCEPT !.src = src]
  IN IF ra /\ size(s) + Len(src) > capacity THEN Throw(s, "bad_alloc")
     ELSE LET b == end(s)
              r == emplace_back_moved(s, 1, mut)
          IN IF r.err # "none" THEN r
             ELSE LET pos == begin(r) + (position - begin(r))
                  IN Returns(rotate(r, pos, b, end(r)), pos)

\* insert_range(const_iterator, R&& rg): insert(position, std::begin(rg), std::end(rg));
\* ra tells whether rg's iterators are random access, mut whether they refer to T&
insert_range(m, position, rg, ra, mut) == insert_iter(m, position, rg, ra, mut)

\* insert(const_iterator, initializer_list<T>): its iterators are const T*
insert_il(m, position, il) == insert_range(m, position, il, TRUE, FALSE)

\* insert(const_iterator, const T&)
insert_copy(m, position, x) == insert_n(m, position, 1, x)

\* insert(const_iterator, T&&)
insert_move(m, position, x) == emplace(m, position, x)

\* insert(position, x), x a reference to const to element i of *this: every
\* emplace_back(x) of the loop reads element i, which the appends leave alone
insert_copy_ref(m, position, i) ==
  LET b == end(m)
      r == emplace_back_n(m, 1, m.data[__index(m, i)])
  IN IF r.err # "none" THEN r
     ELSE LET pos == begin(r) + (position - begin(r))
          IN Returns(rotate(r, pos, b, end(r)), pos)

\* insert(position, std::move(x)), x element i of *this: emplace constructs the new
\* element from x, which leaves element i moved-from, and then rotates
insert_move_ref(m, position, i) ==
  LET b == end(m)
      r == emplace_back(m, m.data[__index(m, i)])
  IN IF r.err # "none" THEN r
     ELSE LET mv == [r EXCEPT !.data[i] = MovedFrom(@)]
              pos == begin(mv) + (position - begin(mv))
          IN Returns(rotate(mv, pos, b, end(mv)), pos)

\* ---- erasure ----
\* std::move(first, last, result): element-wise move assignment, returns the end of the
\* destination range
RECURSIVE std_move(_, _, _, _)
std_move(m, first, last, result) ==
  IF first = last THEN Returns(m, result)
  ELSE std_move([m EXCEPT !.data[result] = m.data[first],
                          !.data[first] = MovedFrom(m.data[first])],
                first + 1, last, result + 1)

\* variant: the tail is destroyed without the surviving elements being moved down
erase_noshift(m, first, last) ==
  LET f == begin(m) + (first - begin(m))
  IN IF first # last
     THEN LET d == __unsafe_destroy(m, end(m) - (last - first), end(m))
              s == __unsafe_set_size(d, size(d) - (last - first))
          IN Returns(s, f)
     ELSE Returns(m, f)

erase(m, first, last) ==
  LET f == begin(m) + (first - begin(m))
  IN IF first # last
     THEN LET mv == std_move(m, f + (last - first), end(m), f)
              d == __unsafe_destroy(mv, mv.ret, end(mv))
              s == __unsafe_set_size(d, size(d) - (last - first))
          IN Returns(s, f)
     ELSE Returns(m, f)

\* variant: everything from position on is erased
erase_at_tail(m, position) == erase(m, position, end(m))

\* erase(const_iterator position)
erase_at(m, position) == erase(m, position, position + 1)

\* erase(insert(position, x)): the iterator insert returns is handed to erase; rv tells
\* whether x is an rvalue (insert(const_iterator, T&&)) or not (const T&)
erase_insert(m, position, x, rv) ==
  LET i == IF rv THEN insert_move(m, position, x) ELSE insert_copy(m, position, x)
  IN IF i.err # "none" THEN i ELSE erase_at(i, i.ret)

clear(m) == Returns(__unsafe_set_size(__unsafe_destroy(m, begin(m), end(m)), 0), Null)

\* variant: the count is lowered without the last element being destroyed
pop_back_nodestroy(m) == Returns(__unsafe_set_size(m, size(m) - 1), Null)

pop_back(m) ==
  Returns(__unsafe_set_size(__unsafe_destroy(m, end(m) - 1, end(m)), size(m) - 1), Null)

\* ---- resize ----
\* variant: the request is not compared with the capacity
resize_value_nocap(m, sz, c) ==
  IF sz = size(m) THEN Returns(m, Null)
  ELSE IF sz > size(m)
  THEN LET r == insert_n(m, end(m), sz - size(m), c)
       IN IF r.err # "none" THEN r ELSE Returns(r, Null)
  ELSE Returns(__unsafe_set_size(__unsafe_destroy(m, begin(m) + sz, end(m)), sz), Null)

\* resize(size_type sz, const T& c)
resize_value(m, sz, c) ==
  IF sz = size(m) THEN Returns(m, Null)
  ELSE IF sz > __N THEN Throw(m, "bad_alloc")
  ELSE IF sz > size(m)
  THEN LET r == insert_n(m, end(m), sz - size(m), c)
       IN IF r.err # "none" THEN r ELSE Returns(r, Null)
  ELSE Returns(__unsafe_set_size(__unsafe_destroy(m, begin(m) + sz, end(m)), sz), Null)

\* while (size() != sz) emplace_back(T{});
RECURSIVE emplace_back_until(_, _)
emplace_back_until(m, sz) ==
  IF size(m) = sz \/ m.err # "none" THEN m
  ELSE emplace_back_until(emplace_back(m, DefaultT), sz)

\* variant: the tail is destroyed from one element too far up
resize_offbyone(m, sz) ==
  IF sz = size(m) THEN Returns(m, Null)
  ELSE IF sz > __N THEN Throw(m, "bad_alloc")
  ELSE IF sz > size(m)
  THEN LET r == emplace_back_until(m, sz)
       IN IF r.err # "none" THEN r ELSE Returns(r, Null)
  ELSE Returns(__unsafe_set_size(__unsafe_destroy(m, begin(m) + sz + 1, end(m)), sz), Null)

\* resize(size_type sz)
resize(m, sz) ==
  IF sz = size(m) THEN Returns(m, Null)
  ELSE IF sz > __N THEN Throw(m, "bad_alloc")
  ELSE IF sz > size(m)
  THEN LET r == emplace_back_until(m, sz)
       IN IF r.err # "none" THEN r ELSE Returns(r, Null)
  ELSE Returns(__unsafe_set_size(__unsafe_destroy(m, begin(m) + sz, end(m)), sz), Null)

\* ---- checked element access ----
\* __IV_EXPECT(expr): an assertion that aborts when NDEBUG is not defined, an assumption
\* the optimizer may rely on (undefined behaviour when false) when it is
__IV_EXPECT(m, expr, ndebug) ==
  IF expr THEN m
  ELSE IF ndebug THEN Throw(m, "undefined") ELSE Throw(m, "abort")

\* variant: the bound test is > instead of >=
at_gt(m, pos, ndebug) ==
  IF pos > size(m) THEN Throw(m, "out_of_range")
  ELSE LET e == __IV_EXPECT(m, pos < size(m), ndebug)
       IN IF e.err # "none" THEN e ELSE Returns(e, __index(e, pos))

\* at(size_type pos); ndebug: the build defines NDEBUG
at(m, pos, ndebug) ==
  IF pos >= size(m) THEN Throw(m, "out_of_range")
  ELSE LET e == __IV_EXPECT(m, pos < size(m), ndebug)
       IN IF e.err # "none" THEN e ELSE Returns(e, __index(e, pos))

\* ---- construct / copy / move / destroy ----
\* inplace_vector() noexcept
default_construct == Returns(__unsafe_set_size(Start(EmptyStorage), 0), Null)

\* variant: the copy loop stops one element early
copy_construct_short(x) ==
  Returns(emplace_back_each(Start(EmptyStorage), SubSeq(Elems(x), 1, size(x) - 1)), Null)

\* inplace_vector(const inplace_vector& x)
copy_construct(x) == Returns(emplace_back_each(Start(EmptyStorage), Elems(x)), Null)

\* for (auto&& e : x) emplace_back(std::move(e));  from index i of x on
RECURSIVE move_each(_, _, _)
move_each(m, x, i) ==
  IF i = size(x) THEN [this |-> m, x |-> x]
  ELSE LET r == emplace_back(m, x.data[i])
       IN IF r.err # "none" THEN [this |-> r, x |-> x]
          ELSE move_each(r, [x EXCEPT !.data[i] = MovedFrom(@)], i + 1)

\* variant: the source is emptied after its elements were moved (as std::vector does)
move_construct_clears(x) ==
  LET r == move_each(Start(EmptyStorage), x, 0)
  IN [this |-> r.this, x |-> Storage(clear(Start(r.x)))]

\* inplace_vector(inplace_vector&& x)
move_construct(x) == move_each(Start(EmptyStorage), x, 0)

\* variant: the old elements are not cleared before the copies are appended
copy_assign_noclear(m, x, self) ==
  Returns(emplace_back_each(m, Elems(x)), Null)

\* operator=(const inplace_vector& x); self: x is *this
copy_assign(m, x, self) ==
  LET c == clear(m)
  IN Returns(emplace_back_each(c, IF self THEN Elems(c) ELSE Elems(x)), Null)

\* operator=(inplace_vector&& x); self: x is *this
move_assign(m, x, self) ==
  LET c == clear(m)
  IN move_each(c, IF self THEN Storage(c) ELSE x, 0)

\* ~inplace_vector() is implicit and the storage's destructor is defaulted: no element
\* destructor runs, the buffer simply goes away with whatever objects it holds
destructor(m) == m

\* inplace_vector(InputIterator first, InputIterator last): insert(begin(), first, last)
\* on the empty buffer.  When insert throws, the constructor is left by the exception
\* and the storage base is destroyed by its defaulted destructor, which runs no element
\* destructor.
iter_construct(src, ra, mut) ==
  LET e == Start(EmptyStorage)
      r == insert_iter(e, begin(e), src, ra, mut)
  IN IF r.err # "none" THEN r ELSE Returns(r, Null)

\* variant: the third step assigns from *this instead of tmp
swap_notmp(m, x) ==
  LET t == move_construct(x)
      a == move_assign(Start(t.x), Storage(m), FALSE)
      b == move_assign(Start(a.x), a.x, TRUE)
  IN [this |-> [Returns(b.this, Null) EXCEPT !.tmp = Storage(destructor(t.this))],
      x |-> Storage(a.this)]

\* swap(inplace_vector& x):
\*   auto tmp = std::move(x);  x = std::move(*this);  *this = std::move(tmp);
\* tmp goes out of scope at the end (implicit destructor)
swap(m, x) ==
  LET t == move_construct(x)
      a == move_assign(Start(t.x), Storage(m), FALSE)
      b == move_assign(Start(a.x), Storage(t.this), FALSE)
  IN [this |-> [Returns(b.this, Null) EXCEPT !.tmp = Storage(destructor(Start(b.x)))],
      x |-> Storage(a.this)]

\* t = rv() with rv() returning a copy of v by value: the temporary is copy-constructed
\* from v, t is move-assigned from it, and the temporary is destroyed at the end of the
\* full expression
move_assign_temp(m, v) ==
  LET rv == copy_construct(v)
      r == move_assign(m, Storage(rv), FALSE)
  IN [Returns(r.this, Null) EXCEPT !.tmp = Storage(destructor(Start(r.x)))]

\* friend swap(x, y): x.swap(y)
friend_swap(x, y) == swap(x, y)

\* ---- assign ----
\* variant: the capacity is tested before the old contents are destroyed
assign_iter_checkfirst(m, src, ra, mut) ==
  IF ra /\ Len(src) > capacity THEN Throw([m EXCEPT !.src = src], "bad_alloc")
  ELSE LET c == clear(m)
           r == insert_iter(c, begin(c), src, ra, mut)
       IN IF r.err # "none" THEN r ELSE Returns(r, Null)

\* assign(InputIterator first, InputIterator last): clear(); insert(begin(), first, last);
assign_iter(m, src, ra, mut) ==
  LET c == clear(m)
      r == insert_iter(c, begin(c), src, ra, mut)
  IN IF r.err # "none" THEN r ELSE Returns(r, Null)

\* assign_range(R&& rg): assign(begin(rg), end(rg))
assign_range(m, rg, ra, mut) == assign_iter(m, rg, ra, mut)

\* assign(size_type n, const T& u): clear(); insert(begin(), n, u);
assign_n(m, n, u) ==
  LET c == clear(m)
      r == insert_n(c, begin(c), n, u)
  IN IF r.err # "none" THEN r ELSE Returns(r, Null)

\* assign(initializer_list<T> il): clear(); insert_range(begin(), il);
assign_il(m, il) ==
  LET c == clear(m)
      r == insert_range(c, begin(c), il, TRUE, FALSE)
  IN IF r.err # "none" THEN r ELSE Returns(r, Null)

\* ---- calls ----
NoCall ==
  [op |-> "none", self |-> 0, other |-> 0, pos |-> 0, last |-> 0, n |-> 0,
   x |-> 0, src |-> <<>>, ra |-> FALSE, mut |-> FALSE, sized |-> FALSE,
   ndebug |-> FALSE]
Call(op, c) == [NoCall EXCEPT !.op = op, !.self = c]

Constructors == {"default_construct", "copy_construct", "move_construct", "iter_construct"}
\* calls that take their second operand by reference to const
ConstOther ==
  {"copy_construct", "copy_assign", "operator_eq", "operator_ne", "operator_cmp",
   "move_assign_temp"}
\* pushes[c] once a call on c or with c as its mutable argument was something else
NotTracked == <<Dead>>

\* the call cr ran to the execution record m, leaving the objects as v2 / a2
Done(cr, m, v2, a2) ==
  /\ pc = "ready"
  /\ pre' = vec
  /\ vec' = v2
  /\ alive' = a2
  /\ err' = m.err
  /\ ret' = m.ret
  /\ ev' = m.ev
  /\ tmp' = m.tmp
  /\ source' = m.src
  /\ call' = cr
  /\ pc' = "done"
  /\ ctor' = [c \in Ids |->
       IF c # cr.self THEN ctor[c]
       ELSE IF cr.op \in Constructors THEN IF m.err = "none" THEN cr.op ELSE "none"
       ELSE IF cr.op = "destructor" THEN "none"
       ELSE ctor[c]]
  /\ pushes' = [c \in Ids |->
       IF c = cr.self
       THEN IF cr.op = "default_construct" THEN <<>>
            ELSE IF cr.op = "push_back" /\ pushes[c] # NotTracked
                 THEN IF m.err = "none" THEN Append(pushes[c], cr.x) ELSE pushes[c]
                 ELSE NotTracked
       ELSE IF c = cr.other /\ cr.op \notin ConstOther
            THEN NotTracked
            ELSE pushes[c]]
  /\ swapped' =
       IF cr.op \in {"swap", "friend_swap"} THEN TRUE
       ELSE IF cr.op \in Constructors \cup {"destructor"} THEN FALSE
       ELSE swapped
  /\ UNCHANGED __N

\* a member function call on the live object c
Finish(c, cr, m) ==
  /\ alive[c]
  /\ Done(cr, m, [vec EXCEPT ![c] = Storage(m)], alive)

\* sources handed to the bulk calls, and positions into a container
Sources == UNION {[1..k -> T] : k \in 0..MaxSrc}
Positions(c) == begin(vec[c])..end(vec[c])

PushBack(c, x) == Finish(c, [Call("push_back", c) EXCEPT !.x = x], push_back(Start(vec[c]), x))
EmplaceBack(c, x) == Finish(c, [Call("emplace_back", c) EXCEPT !.x = x], emplace_back(Start(vec[c]), x))
TryPushBack(c, x) == Finish(c, [Call("try_push_back", c) EXCEPT !.x = x], try_push_back(Start(vec[c]), x))
TryEmplaceBack(c, x) == Finish(c, [Call("try_emplace_back", c) EXCEPT !.x = x], try_emplace_back(Start(vec[c]), x))
\* precondition size() < capacity() (__IV_EXPECT)
UncheckedPushBack(c, x) ==
  /\ size(vec[c]) < capacity
  /\ Finish(c, [Call("unchecked_push_back", c) EXCEPT !.x = x], unchecked_push_back(Start(vec[c]), x))
UncheckedEmplaceBack(c, x) ==
  /\ size(vec[c]) < capacity
  /\ Finish(c, [Call("unchecked_emplace_back", c) EXCEPT !.x = x], unchecked_emplace_back(Start(vec[c]), x))

\* precondition for every position argument: begin() <= position <= end()
Emplace(c, p, x) ==
  /\ p \in Positions(c)
  /\ Finish(c, [Call("emplace", c) EXCEPT !.pos = p, !.x = x], emplace(Start(vec[c]), p, x))
InsertCopy(c, p, x) ==
  /\ p \in Positions(c)
  /\ Finish(c, [Call("insert_copy", c) EXCEPT !.pos = p, !.x = x], insert_copy(Start(vec[c]), p, x))
InsertMove(c, p, x) ==
  /\ p \in Positions(c)
  /\ Finish(c, [Call("insert_move", c) EXCEPT !.pos = p, !.x = x], insert_move(Start(vec[c]), p, x))
InsertN(c, p, n, x) ==
  /\ p \in Positions(c)
  /\ Finish(c, [Call("insert_n", c) EXCEPT !.pos = p, !.n = n, !.x = x],
            insert_n(Start(vec[c]), p, n, x))
InsertIter(c, p, src, ra, mut) ==
  /\ p \in Positions(c)
  /\ Finish(c, [Call("insert_iter", c) EXCEPT !.pos = p, !.src = src, !.ra = ra, !.mut = mut],
            insert_iter(Start(vec[c]), p, src, ra, mut))
InsertRange(c, p, rg, ra, mut) ==
  /\ p \in Positions(c)
  /\ Finish(c, [Call("insert_range", c) EXCEPT !.pos = p, !.src = rg, !.ra = ra, !.mut = mut],
            insert_range(Start(vec[c]), p, rg, ra, mut))
InsertIl(c, p, il) ==
  /\ p \in Positions(c)
  /\ Finish(c, [Call("insert_il", c) EXCEPT !.pos = p, !.src = il, !.ra = TRUE],
            insert_il(Start(vec[c]), p, il))

\* the argument is a reference to element i of the container itself
EmplaceRef(c, p, i) ==
  /\ p \in Positions(c) /\ i < size(vec[c])
  /\ Finish(c, [Call("emplace_ref", c) EXCEPT !.pos = p, !.n = i],
            emplace_ref(Start(vec[c]), p, i))
InsertCopyRef(c, p, i) ==
  /\ p \in Positions(c) /\ i < size(vec[c])
  /\ Finish(c, [Call("insert_copy_ref", c) EXCEPT !.pos = p, !.n = i],
            insert_copy_ref(Start(vec[c]), p, i))
InsertMoveRef(c, p, i) ==
  /\ p \in Positions(c) /\ i < size(vec[c])
  /\ Finish(c, [Call("insert_move_ref", c) EXCEPT !.pos = p, !.n = i],
            insert_move_ref(Start(vec[c]), p, i))

\* precondition begin() <= first <= last <= end()
Erase(c, first, last) ==
  /\ first \in Positions(c) /\ last \in Positions(c) /\ first <= last
  /\ Finish(c, [Call("erase", c) EXCEPT !.pos = first, !.last = last],
            erase(Start(vec[c]), first, last))
\* precondition: position is dereferenceable
EraseAt(c, p) ==
  /\ begin(vec[c]) <= p /\ p < end(vec[c])
  /\ Finish(c, [Call("erase_at", c) EXCEPT !.pos = p, !.last = p + 1],
            erase_at(Start(vec[c]), p))
EraseInsert(c, p, x, rv) ==
  /\ p \in Positions(c)
  /\ Finish(c, [Call("erase_insert", c) EXCEPT !.pos = p, !.x = x, !.ra = rv],
            erase_insert(Start(vec[c]), p, x, rv))
Clear(c) == Finish(c, Call("clear", c), clear(Start(vec[c])))
\* precondition size() > 0 (__IV_EXPECT)
PopBack(c) ==
  /\ size(vec[c]) > 0
  /\ Finish(c, Call("pop_back", c), pop_back(Start(vec[c])))

AppendRange(c, rg, sized) ==
  Finish(c, [Call("append_range", c) EXCEPT !.src = rg, !.sized = sized],
         append_range(Start(vec[c]), rg, sized))
AssignIter(c, src, ra, mut) ==
  Finish(c, [Call("assign_iter", c) EXCEPT !.src = src, !.ra = ra, !.mut = mut],
         assign_iter(Start(vec[c]), src, ra, mut))
AssignRange(c, rg, ra, mut) ==
  Finish(c, [Call("assign_range", c) EXCEPT !.src = rg, !.ra = ra, !.mut = mut],
         assign_range(Start(vec[c]), rg, ra, mut))
AssignN(c, n, u) ==
  Finish(c, [Call("assign_n", c) EXCEPT !.n = n, !.x = u], assign_n(Start(vec[c]), n, u))
AssignIl(c, il) ==
  Finish(c, [Call("assign_il", c) EXCEPT !.src = il, !.ra = TRUE],
         assign_il(Start(vec[c]), il))
Resize(c, sz) ==
  Finish(c, [Call("resize", c) EXCEPT !.n = sz, !.x = DefaultT], resize(Start(vec[c]), sz))
ResizeValue(c, sz, x) ==
  Finish(c, [Call("resize_value", c) EXCEPT !.n = sz, !.x = x],
         resize_value(Start(vec[c]), sz, x))
At(c, i, ndebug) ==
  Finish(c, [Call("at", c) EXCEPT !.pos = i, !.ndebug = ndebug],
         at(Start(vec[c]), i, ndebug))

Data(c) == Finish(c, Call("data", c), Returns(Start(vec[c]), data(vec[c])))
Reserve(c, n) ==
  Finish(c, [Call("reserve", c) EXCEPT !.n = n], reserve(Start(vec[c]), n))
ShrinkToFit(c) == Finish(c, Call("shrink_to_fit", c), shrink_to_fit(Start(vec[c])))

\* the width of the count field of the object's storage
SizeType(c) ==
  Finish(c, Call("size_type", c), Returns(Start(vec[c]), __size_type(__N)))

\* comparisons read both operands
Equal(c, d) ==
  /\ alive[d]
  /\ Finish(c, [Call("operator_eq", c) EXCEPT !.other = d],
            Returns(Start(vec[c]), operator_eq(vec[c], vec[d])))
NotEqual(c, d) ==
  /\ alive[d]
  /\ Finish(c, [Call("operator_ne", c) EXCEPT !.other = d],
            Returns(Start(vec[c]), operator_ne(vec[c], vec[d])))
Compare(c, d) ==
  /\ alive[d]
  /\ Finish(c, [Call("operator_cmp", c) EXCEPT !.other = d],
            Returns(Start(vec[c]), operator_cmp(vec[c], vec[d])))

Swap(c, d) ==
  /\ alive[c] /\ alive[d]
  /\ LET r == swap(Start(vec[c]), vec[d])
     IN Done([Call("swap", c) EXCEPT !.other = d], r.this,
             [vec EXCEPT ![d] = r.x, ![c] = Storage(r.this)], alive)
FriendSwap(c, d) ==
  /\ alive[c] /\ alive[d]
  /\ LET r == friend_swap(Start(vec[c]), vec[d])
     IN Done([Call("friend_swap", c) EXCEPT !.other = d], r.this,
             [vec EXCEPT ![d] = r.x, ![c] = Storage(r.this)], alive)

MoveAssignTemp(c, d) ==
  /\ alive[d]
  /\ Finish(c, [Call("move_assign_temp", c) EXCEPT !.other = d],
            move_assign_temp(Start(vec[c]), vec[d]))

\* constructors run on an object outside its lifetime
DefaultConstruct(c) ==
  /\ ~alive[c]
  /\ LET m == default_construct
     IN Done(Call("default_construct", c), m,
             [vec EXCEPT ![c] = Storage(m)], [alive EXCEPT ![c] = TRUE])
\* a constructor left by an exception starts no lifetime; the buffer keeps what the
\* unwinding left in it
IterConstruct(c, src, ra, mut) ==
  /\ ~alive[c]
  /\ LET m == iter_construct(src, ra, mut)
     IN Done([Call("iter_construct", c) EXCEPT !.src = src, !.ra = ra, !.mut = mut], m,
             [vec EXCEPT ![c] = Storage(m)], [alive EXCEPT ![c] = (m.err = "none")])
CopyConstruct(c, d) ==
  /\ ~alive[c] /\ alive[d]
  /\ LET m == copy_construct(vec[d])
     IN Done([Call("copy_construct", c) EXCEPT !.other = d], m,
             [vec EXCEPT ![c] = Storage(m)], [alive EXCEPT ![c] = TRUE])
MoveConstruct(c, d) ==
  /\ ~alive[c] /\ alive[d]
  /\ LET r == move_construct(vec[d])
     IN Done([Call("move_construct", c) EXCEPT !.other = d], Returns(r.this, Null),
             [vec EXCEPT ![c] = Storage(r.this), ![d] = r.x], [alive EXCEPT ![c] = TRUE])
CopyAssign(c, d) ==
  /\ alive[d]
  /\ Finish(c, [Call("copy_assign", c) EXCEPT !.other = d],
            copy_assign(Start(vec[c]), vec[d], c = d))
MoveAssign(c, d) ==
  /\ alive[c] /\ alive[d]
  /\ LET r == move_assign(Start(vec[c]), vec[d], c = d)
     IN Done([Call("move_assign", c) EXCEPT !.other = d], Returns(r.this, Null),
             [vec EXCEPT ![d] = r.x, ![c] = Storage(r.this)], alive)
Destructor(c) ==
  /\ alive[c]
  /\ LET m == destructor(Start(vec[c]))
     IN Done(Call("destructor", c), m,
             [vec EXCEPT ![c] = Storage(m)], [alive EXCEPT ![c] = FALSE])

\* control is back with the caller
Return ==
  /\ pc = "done"
  /\ pc' = "ready"
  /\ call' = NoCall
  /\ pre' = vec
  /\ err' = "none"
  /\ ret' = Null
  /\ ev' = <<>>
  /\ tmp' = EmptyStorage
  /\ source' = <<>>
  /\ UNCHANGED <<__N, vec, alive, ctor, pushes, swapped>>

Init ==
  /\ __N \in 0..MaxN
  /\ vec = [c \in Ids |-> EmptyStorage]
  /\ alive = [c \in Ids |-> c = 1]
  /\ pc = "ready"
  /\ call = NoCall
  /\ pre = vec
  /\ err = "none"
  /\ ret = Null
  /\ ev = <<>>
  /\ ctor = [c \in Ids |-> IF c = 1 THEN "default_construct" ELSE "none"]
  /\ pushes = [c \in Ids |-> IF c = 1 THEN <<>> ELSE NotTracked]
  /\ swapped = FALSE
  /\ tmp = EmptyStorage
  /\ source = <<>>

\* one container object and the whole single-object interface
Next ==
  \/ /\ pc = "ready"
     /\ \/ \E x \in T : PushBack(1, x)
        \/ \E x \in T : EmplaceBack(1, x)
        \/ \E x \in T : TryPushBack(1, x)
        \/ \E x \in T : TryEmplaceBack(1, x)
        \/ \E x \in T : UncheckedPushBack(1, x)
        \/ \E x \in T : UncheckedEmplaceBack(1, x)
        \/ \E p \in 0..MaxN, x \in T : Emplace(1, p, x)
        \/ \E p \in 0..MaxN, x \in T : InsertCopy(1, p, x)
        \/ \E p \in 0..MaxN, x \in T : InsertMove(1, p, x)
        \/ \E p \in 0..MaxN, i \in 0..MaxN : EmplaceRef(1, p, i)
        \/ \E p \in 0..MaxN, i \in 0..MaxN : InsertCopyRef(1, p, i)
        \/ \E p \in 0..MaxN, i \in 0..MaxN : InsertMoveRef(1, p, i)
        \/ \E p \in 0..MaxN, n \in 0..MaxSrc, x \in T : InsertN(1, p, n, x)
        \/ \E p \in 0..MaxN, src \in Sources, ra \in BOOLEAN, mut \in BOOLEAN :
              InsertIter(1, p, src, ra, mut)
        \/ \E p \in 0..MaxN, rg \in Sources, ra \in BOOLEAN, mut \in BOOLEAN :
              InsertRange(1, p, rg, ra, mut)
        \/ \E p \in 0..MaxN, il \in Sources : InsertIl(1, p, il)
        \/ \E first \in 0..MaxN, last \in 0..MaxN : Erase(1, first, last)
        \/ \E p \in 0..MaxN : EraseAt(1, p)
        \/ \E p \in 0..MaxN, x \in T, rv \in BOOLEAN : EraseInsert(1, p, x, rv)
        \/ Clear(1)
        \/ PopBack(1)
        \/ \E rg \in Sources, sized \in BOOLEAN : AppendRange(1, rg, sized)
        \/ \E src \in Sources, ra \in BOOLEAN, mut \in BOOLEAN : AssignIter(1, src, ra, mut)
        \/ \E rg \in Sources, ra \in BOOLEAN, mut \in BOOLEAN : AssignRange(1, rg, ra, mut)
        \/ \E n \in 0..(MaxN + 1), u \in T : AssignN(1, n, u)
        \/ \E il \in Sources : AssignIl(1, il)
        \/ \E sz \in 0..(MaxN + 1) : Resize(1, sz)
        \/ \E sz \in 0..(MaxN + 1), x \in T : ResizeValue(1, sz, x)
        \/ \E i \in 0..(MaxN + 1), ndebug \in BOOLEAN : At(1, i, ndebug)
        \/ Data(1)
        \/ \E n \in 0..(MaxN + 1) : Reserve(1, n)
        \/ ShrinkToFit(1)
        \/ CopyAssign(1, 1)
        \/ DefaultConstruct(1)
        \/ \E src \in Sources, ra \in BOOLEAN, mut \in BOOLEAN : IterConstruct(1, src, ra, mut)
        \/ Destructor(1)
  \/ Return

Spec == Init /\ [][Next]_vars

\* two container objects: object 1 lives throughout, object 2 is constructed from it,
\* assigned to and from it, and destroyed
NextPair ==
  \/ /\ pc = "ready"
     /\ \/ \E c \in Ids, x \in T : PushBack(c, x)
        \/ \E c \in Ids : PopBack(c)
        \/ \E c \in Ids : Clear(c)
        \/ \E c \in Ids, p \in 0..MaxN, x \in T : Emplace(c, p, x)
        \/ DefaultConstruct(2)
        \/ CopyConstruct(2, 1)
        \/ MoveConstruct(2, 1)
        \/ \E c \in Ids, d \in Ids : c # d /\ CopyAssign(c, d)
        \/ \E c \in Ids, d \in Ids : c # d /\ MoveAssign(c, d)
        \/ Destructor(2)
  \/ Return

SpecPair == Init /\ [][NextPair]_vars

\* two container objects of one type, compared, swapped and assigned from a temporary
NextRel ==
  \/ /\ pc = "ready"
     /\ \/ \E c \in Ids, x \in T : PushBack(c, x)
        \/ \E c \in Ids : PopBack(c)
        \/ DefaultConstruct(2)
        \/ \E c \in Ids, d \in Ids : Equal(c, d)
        \/ \E c \in Ids, d \in Ids : NotEqual(c, d)
        \/ \E c \in Ids, d \in Ids : Compare(c, d)
        \/ \E c \in Ids, d \in Ids : c # d /\ Swap(c, d)
        \/ \E c \in Ids, d \in Ids : c # d /\ FriendSwap(c, d)
        \/ \E c \in Ids, d \in Ids : c # d /\ MoveAssignTemp(c, d)
  \/ Return

SpecRel == Init /\ [][NextRel]_vars

\* instantiations with capacities around the limits of the 8 and 16 bit types
Capacities ==
  (0..MaxN) \cup ((2^8 - 1 - Near)..(2^8 - 1 + Near))
            \cup ((2^16 - 1 - Near)..(2^16 - 1 + Near))

InitWidth ==
  /\ __N \in Capacities
  /\ vec = [c \in Ids |-> EmptyStorage]
  /\ alive = [c \in Ids |-> c = 1]
  /\ pc = "ready"
  /\ call = NoCall
  /\ pre = vec
  /\ err = "none"
  /\ ret = Null
  /\ ev = <<>>
  /\ ctor = [c \in Ids |-> IF c = 1 THEN "default_construct" ELSE "none"]
  /\ pushes = [c \in Ids |-> IF c = 1 THEN <<>> ELSE NotTracked]
  /\ swapped = FALSE
  /\ tmp = EmptyStorage
  /\ source = <<>>

NextWidth ==
  \/ /\ pc = "ready"
     /\ \/ SizeType(1)
        \/ Data(1)
  \/ Return

SpecWidth == InitWidth /\ [][NextWidth]_vars

\* ------------------------------------------------------------------------
\* Properties
\* ------------------------------------------------------------------------
Done_(op) == pc = "done" /\ call.op = op
Self == call.self
Other == call.other

\* number of element objects alive in the buffer v
LiveObjects(v) == Cardinality({i \in DOMAIN v.data : v.data[i] # Dead})

\* C1: in every state each live container has 0 <= size() <= N, and capacity()
\* and max_size() are N, also right after a call that ended in an error.
C1_SizeWithinCapacity ==
  \A c \in Ids : alive[c] =>
    /\ 0 <= size(vec[c]) /\ size(vec[c]) <= __N
    /\ capacity = __N /\ max_size = __N

C1_Witness ==
  /\ pc = "done" /\ err = "bad_alloc" /\ call.op = "insert_n"
  /\ __N = MaxN /\ size(vec[1]) = __N

\* C2: on a full container push_back and emplace_back end in bad_alloc, try_push_back
\* and try_emplace_back return the null pointer without an exception, and in all four
\* cases the size and every element are as before.
C2_FullPushFails ==
  (/\ pc = "done"
   /\ call.op \in {"push_back", "emplace_back", "try_push_back", "try_emplace_back"}
   /\ size(pre[Self]) = capacity)
  => /\ call.op \in {"push_back", "emplace_back"} => err = "bad_alloc"
     /\ call.op \in {"try_push_back", "try_emplace_back"} => err = "none" /\ ret = Null
     /\ vec[Self] = pre[Self]

C2_Witness ==
  /\ Done_("try_push_back") /\ __N = MaxN /\ size(pre[1]) = capacity
  /\ ret = Null /\ call.x # pre[1].data[__N - 1]

\* C3: once the destructor of a container has run, no element object of that container
\* is left alive (each was destroyed), whatever its size was.
C3_DestructorDestroysAll ==
  Done_("destructor") => LiveObjects(vec[Self]) = 0

\* C4: while a default-constructed container has seen push_back calls only, its size is
\* the number of successful calls (at most N), element i is the value of the i-th
\* successful call, back() is the last such value and front() the first.
C4_PushBackSequence ==
  \A c \in Ids : (alive[c] /\ pushes[c] # NotTracked) =>
    /\ size(vec[c]) = Len(pushes[c])
    /\ Len(pushes[c]) <= __N
    /\ \A i \in 0..(size(vec[c]) - 1) : vec[c].data[i] = pushes[c][i + 1]
    /\ ~empty(vec[c]) =>
         /\ vec[c].data[back(vec[c])] = pushes[c][Len(pushes[c])]
         /\ vec[c].data[front(vec[c])] = pushes[c][1]

C4_Witness ==
  /\ Done_("push_back") /\ err = "bad_alloc" /\ __N = MaxN
  /\ pushes[1] # NotTracked /\ Len(pushes[1]) = MaxN
  /\ pushes[1][1] # pushes[1][MaxN]

\* operations that involve one container only and may change it
Mutators == {"push_back", "pop_back", "clear", "emplace"}

\* C5: copy-constructing b from a gives b == a and leaves a as it was; and while b is a
\* copy-constructed object, an operation applied to one of the two containers alone
\* leaves the size and the elements of the other as they were.
C5_CopyIsIndependent ==
  /\ Done_("copy_construct") =>
       /\ operator_eq(vec[Self], vec[Other])
       /\ vec[Other] = pre[Other]
  /\ (/\ pc = "done" /\ call.op \in Mutators
      /\ ctor[2] = "copy_construct" /\ alive[1] /\ alive[2])
     => \A d \in Ids \ {Self} : vec[d] = pre[d]

C5_Witness ==
  /\ Done_("emplace") /\ Self = 1 /\ err = "none"
  /\ ctor[2] = "copy_construct" /\ alive[2]
  /\ size(vec[2]) = 2 /\ vec[2].data[0] # vec[2].data[1]
  /\ operator_eq(pre[1], pre[2]) /\ ~operator_eq(vec[1], vec[2])

\* C6: after t = v on two distinct containers (t of any size before), t == v, v is as it
\* was, and the call first destroyed each element t held, each once, and only then
\* constructed the new elements.
C6_CopyAssign ==
  (Done_("copy_assign") /\ Self # Other) =>
    LET old == size(pre[Self]) IN
    /\ err = "none"
    /\ operator_eq(vec[Self], vec[Other])
    /\ vec[Other] = pre[Other]
    /\ Len(ev) = old + size(vec[Other])
    /\ \A i \in 1..old : ev[i].what = "destroy"
    /\ {ev[i].at : i \in 1..old} = 0..(old - 1)
    /\ \A i \in (old + 1)..Len(ev) : ev[i].what = "construct"

C6_Witness ==
  /\ Done_("copy_assign") /\ Self = 2 /\ Other = 1
  /\ size(pre[2]) = MaxN /\ size(pre[1]) = 2
  /\ pre[1].data[0] # pre[2].data[0]

\* C7: after move construction or move assignment of u from a distinct container s, u is
\* equal to the value s had before, and s.size() is what it was before.
C7_MoveKeepsSourceSize ==
  (/\ pc = "done" /\ call.op \in {"move_construct", "move_assign"}
   /\ Self # Other)
  => /\ err = "none"
     /\ operator_eq(vec[Self], pre[Other])
     /\ size(vec[Other]) = size(pre[Other])

C7_Witness ==
  /\ Done_("move_assign") /\ Self = 2 /\ Other = 1
  /\ size(pre[1]) = 2 /\ size(pre[2]) = MaxN
  /\ pre[1].data[1] # DefaultT
  /\ vec[1].data[1] = DefaultT

\* C8: erase(first, last) with begin() <= first <= last <= end() lowers size() by
\* last - first, leaves the elements before first alone, moves the elements of
\* [last, end()) in order down to first, and returns first (which is end() when last was
\* the old end()); erase(first, first) changes nothing.
C8_Erase ==
  (pc = "done" /\ call.op \in {"erase", "erase_at"}) =>
    LET old == pre[Self]
        new == vec[Self]
        first == call.pos
        last == call.last
    IN /\ err = "none"
       /\ size(new) = size(old) - (last - first)
       /\ \A i \in 0..(first - 1) : new.data[i] = old.data[i]
       /\ \A i \in first..(size(new) - 1) : new.data[i] = old.data[i + (last - first)]
       /\ ret = first
       /\ last = end(old) => ret = end(new)
       /\ first = last => new = old

C8_Witness ==
  /\ Done_("erase") /\ call.pos = 1 /\ call.last = 2
  /\ size(pre[1]) = 3 /\ pre[1].data[1] # pre[1].data[2]
  /\ pre[1].data[0] # pre[1].data[2]

\* the values a call inserts, in source order
Inserted(cr) ==
  IF cr.op \in {"emplace", "insert_copy", "insert_move"} THEN <<cr.x>>
  ELSE IF cr.op = "insert_n" THEN [i \in 1..cr.n |-> cr.x]
  ELSE cr.src

InsertOps ==
  {"emplace", "insert_copy", "insert_move", "insert_n", "insert_iter", "insert_range",
   "insert_il"}

\* C9: an insert of m elements at index k into a container of size s with s + m <= N
\* succeeds and gives size s + m: elements [0, k) as before, then the inserted values
\* in source order, then the old [k, s) in order; it returns begin() + k.
C9_Insert ==
  (/\ pc = "done" /\ call.op \in InsertOps
   /\ size(pre[Self]) + Len(Inserted(call)) <= __N)
  => LET old == pre[Self]
         new == vec[Self]
         k == call.pos
         ins == Inserted(call)
         m == Len(ins)
     IN /\ err = "none"
        /\ size(new) = size(old) + m
        /\ \A i \in 0..(k - 1) : new.data[i] = old.data[i]
        /\ \A i \in 0..(m - 1) : new.data[k + i] = ins[i + 1]
        /\ \A i \in (k + m)..(size(new) - 1) : new.data[i] = old.data[i - m]
        /\ ret = begin(new) + k

C9_Witness ==
  /\ Done_("insert_iter") /\ ~call.ra /\ err = "none"
  /\ call.pos = 1 /\ size(pre[1]) = 2 /\ Len(call.src) = 1
  /\ pre[1].data[0] # call.src[1] /\ pre[1].data[1] # call.src[1]

\* C10: insert(position, value) and emplace(position, args) on a full container end in
\* bad_alloc with the size and the elements as before, at every position.
C10_FullInsertFails ==
  (/\ pc = "done" /\ call.op \in {"emplace", "insert_copy", "insert_move"}
   /\ size(pre[Self]) = capacity)
  => /\ err = "bad_alloc"
     /\ vec[Self] = pre[Self]

C10_Witness ==
  /\ Done_("insert_copy") /\ __N = MaxN /\ size(pre[1]) = capacity
  /\ call.pos = 1 /\ err = "bad_alloc"
  /\ call.x # pre[1].data[1]

\* C11: insert(position, n, value) with size() + n > N ends in bad_alloc with the size
\* and every element as before the call.
C11_InsertNAtomic ==
  (Done_("insert_n") /\ size(pre[Self]) + call.n > __N)
  => /\ err = "bad_alloc"
     /\ vec[Self] = pre[Self]

\* C12: insert_range(position, rg) with size() + size(rg) > N ends in bad_alloc with the
\* container unchanged, whether rg's iterators are random access or not.
C12_InsertRangeAtomic ==
  (Done_("insert_range") /\ size(pre[Self]) + Len(call.src) > __N)
  => /\ err = "bad_alloc"
     /\ vec[Self] = pre[Self]

\* C13: insert(position, first, last) with random-access iterators, insert(position, il)
\* and append_range of a sized range, called with a source that does not fit, end in
\* bad_alloc without having constructed any element: the container is unchanged.
C13_SizedBulkAtomic ==
  (/\ pc = "done"
   /\ \/ call.op = "insert_iter" /\ call.ra
      \/ call.op = "insert_il"
      \/ call.op = "append_range" /\ call.sized
   /\ size(pre[Self]) + Len(call.src) > __N)
  => /\ err = "bad_alloc"
     /\ ev = <<>>
     /\ vec[Self] = pre[Self]

C13_Witness ==
  /\ Done_("append_range") /\ call.sized /\ err = "bad_alloc"
  /\ __N = MaxN /\ size(pre[1]) = MaxN - 1 /\ Len(call.src) = 2

\* C14: when construction from [first, last) fails because the source is longer than N,
\* no element object of the failed container is left alive.
C14_FailedConstructionDestroys ==
  (Done_("iter_construct") /\ err # "none") => LiveObjects(vec[Self]) = 0

\* lexicographic three-way comparison of two sequences: -1, 0 or 1
RECURSIVE LexCompare(_, _)
LexCompare(a, b) ==
  IF a = <<>> /\ b = <<>> THEN 0
  ELSE IF a = <<>> THEN -1
  ELSE IF b = <<>> THEN 1
  ELSE IF Head(a) < Head(b) THEN -1
  ELSE IF Head(a) > Head(b) THEN 1
  ELSE LexCompare(Tail(a), Tail(b))

\* C15: x <=> y is the lexicographic order of the two element sequences: decided by the
\* first index where they differ, or by the lengths when one is a prefix of the other;
\* negative, zero, positive for less, equal, greater.
C15_Lexicographic ==
  Done_("operator_cmp") => ret = LexCompare(Elems(pre[Self]), Elems(pre[Other]))

\* the container of capacity __N holding the elements of seq
VecOf(seq) ==
  [data |-> [i \in Slots |-> IF i < Len(seq) THEN seq[i + 1] ELSE Dead], size |-> Len(seq)]
BoundedVecs == {VecOf(seq) : seq \in {q \in Sources : Len(q) <= __N}}

\* C16: a == b is true exactly when the sizes are equal and the elements agree at every
\* index; it is reflexive, symmetric and transitive (the third operand ranging over the
\* containers of bounded size), and a != b is its negation.
C16_Equality ==
  /\ Done_("operator_eq") =>
       LET a == pre[Self]
           b == pre[Other]
       IN /\ ret = (Elems(a) = Elems(b))
          /\ Self = Other => ret = TRUE
          /\ ret = operator_eq(b, a)
          /\ \A z \in BoundedVecs : (ret /\ operator_eq(b, z)) => operator_eq(a, z)
          /\ vec = pre
  /\ Done_("operator_ne") => ret = (Elems(pre[Self]) # Elems(pre[Other]))

C16_Witness ==
  /\ Done_("operator_eq") /\ Self = 1 /\ Other = 2 /\ ret = TRUE
  /\ size(vec[1]) = 2 /\ vec[1].data[0] # vec[1].data[1]

\* C17: a.swap(b) and swap(a, b) on two distinct containers leave a with exactly b's
\* former elements and b with exactly a's; swapping once more restores both; and once
\* the two have been swapped, a push_back or pop_back on one leaves the other as it was.
C17_Swap ==
  /\ (pc = "done" /\ call.op \in {"swap", "friend_swap"} /\ Self # Other) =>
       /\ err = "none"
       /\ Elems(vec[Self]) = Elems(pre[Other])
       /\ Elems(vec[Other]) = Elems(pre[Self])
       /\ \A c \in {Self, Other} : LiveObjects(vec[c]) = size(vec[c])
       /\ LET r == swap(Start(vec[Self]), vec[Other])
          IN /\ Elems(r.this) = Elems(pre[Self])
             /\ Elems(r.x) = Elems(pre[Other])
  /\ (/\ pc = "done" /\ call.op \in {"push_back", "pop_back"}
      /\ swapped /\ alive[1] /\ alive[2])
     => \A d \in Ids \ {Self} : vec[d] = pre[d]

C17_Witness ==
  /\ Done_("swap") /\ Self = 1 /\ Other = 2
  /\ size(pre[1]) = 1 /\ size(pre[2]) = MaxN
  /\ pre[1].data[0] # pre[2].data[0]

\* C18: resize(n) and resize(n, value).  n == size(): nothing changes.  n > N: bad_alloc
\* and the container is unchanged.  size() < n <= N: the first size() elements are
\* unchanged and exactly n - size() elements equal to T{} (or to value) are appended.
\* n < size(): exactly the trailing size() - n elements are destroyed and the first n are
\* unchanged.  In every successful case size() == n afterwards.
C18_Resize ==
  (pc = "done" /\ call.op \in {"resize", "resize_value"}) =>
    LET old == pre[Self]
        new == vec[Self]
        n == call.n
        v == IF call.op = "resize" THEN DefaultT ELSE call.x
    IN /\ n = size(old) => err = "none" /\ new = old /\ ev = <<>>
       /\ n > __N => err = "bad_alloc" /\ new = old
       /\ (size(old) < n /\ n <= __N) =>
            /\ err = "none"
            /\ \A i \in 0..(size(old) - 1) : new.data[i] = old.data[i]
            /\ \A i \in size(old)..(n - 1) : new.data[i] = v
            /\ Len(ev) = n - size(old)
            /\ \A k \in 1..Len(ev) : ev[k] = [what |-> "construct", at |-> size(old) + k - 1]
       /\ n < size(old) =>
            /\ err = "none"
            /\ \A i \in 0..(n - 1) : new.data[i] = old.data[i]
            /\ Len(ev) = size(old) - n
            /\ \A k \in 1..Len(ev) : ev[k].what = "destroy"
            /\ {ev[k].at : k \in 1..Len(ev)} = n..(size(old) - 1)
            /\ LiveObjects(new) = n
       /\ err = "none" => size(new) = n

C18_Witness ==
  /\ Done_("resize_value") /\ __N = MaxN /\ err = "none"
  /\ size(pre[1]) = 1 /\ call.n = MaxN /\ call.x # DefaultT

\* C19: at(i) ends in out_of_range exactly when i >= size(), with NDEBUG defined or not;
\* otherwise it returns the element at index i; the container is unchanged either way.
C19_At ==
  Done_("at") =>
    /\ err = (IF call.pos >= size(pre[Self]) THEN "out_of_range" ELSE "none")
    /\ err = "none" => ret = begin(pre[Self]) + call.pos
    /\ vec[Self] = pre[Self]

C19_Witness ==
  /\ Done_("at") /\ call.ndebug /\ err = "out_of_range"
  /\ size(pre[1]) = 2 /\ call.pos = size(pre[1])

PushOps ==
  {"push_back", "try_push_back", "unchecked_push_back",
   "emplace_back", "try_emplace_back", "unchecked_emplace_back"}

\* C20: with size() < N the six push forms all give the same container: size() grown by
\* one, x at index old size(), the earlier elements unchanged; the try forms return
\* begin() + old size(), never the null pointer.
C20_PushFormsAgree ==
  (pc = "done" /\ call.op \in PushOps /\ size(pre[Self]) < capacity) =>
    LET old == pre[Self]
        new == vec[Self]
    IN /\ err = "none"
       /\ size(new) = size(old) + 1
       /\ new.data = [old.data EXCEPT ![size(old)] = call.x]
       /\ call.op \in {"try_push_back", "try_emplace_back"} =>
            ret = begin(new) + size(old) /\ ret # Null
       /\ call.op \in {"push_back", "unchecked_push_back", "unchecked_emplace_back"} =>
            ret = back(new)

C20_Witness ==
  /\ Done_("try_emplace_back") /\ __N = MaxN /\ size(pre[1]) = MaxN - 1
  /\ call.x # DefaultT /\ ret = MaxN - 1

\* C21: pop_back() on a container with size() > 0 lowers size() by exactly one, destroys
\* exactly the former last element, leaves the elements before it unchanged and does not
\* throw; a pop_back() right after a successful push_back(x) gives back the container
\* as it was before the push.
C21_PopBack ==
  /\ Done_("pop_back") =>
       LET old == pre[Self]
           new == vec[Self]
       IN /\ err = "none"
          /\ size(new) = size(old) - 1
          /\ ev = <<[what |-> "destroy", at |-> size(old) - 1]>>
          /\ new.data[size(old) - 1] = Dead
          /\ \A i \in 0..(size(new) - 1) : new.data[i] = old.data[i]
  /\ (Done_("push_back") /\ err = "none") =>
       Storage(pop_back(Start(vec[Self]))) = pre[Self]

C21_Witness ==
  /\ Done_("pop_back") /\ size(pre[1]) = MaxN
  /\ pre[1].data[0] # pre[1].data[MaxN - 1]

\* C22: a container with N == 0 is empty in every state: size() == 0, empty(),
\* begin() == end(), data() is null; try_push_back and try_emplace_back return the null
\* pointer and push_back ends in bad_alloc.
C22_ZeroCapacity ==
  __N = 0 =>
    /\ \A c \in Ids : alive[c] =>
         /\ size(vec[c]) = 0
         /\ empty(vec[c])
         /\ begin(vec[c]) = end(vec[c])
         /\ data(vec[c]) = Null
    /\ Done_("data") => ret = Null
    /\ (pc = "done" /\ call.op \in {"try_push_back", "try_emplace_back"}) =>
         err = "none" /\ ret = Null
    /\ Done_("push_back") => err = "bad_alloc"

C22_Witness == __N = 0 /\ Done_("try_push_back") /\ call.x # DefaultT

\* C23: reserve(n) ends in bad_alloc exactly when n > N and otherwise does nothing;
\* shrink_to_fit() does nothing; size(), capacity() and the elements are unchanged in
\* every case.
C23_ReserveShrink ==
  /\ Done_("reserve") =>
       /\ err = (IF call.n > __N THEN "bad_alloc" ELSE "none")
       /\ vec[Self] = pre[Self]
       /\ capacity = __N
  /\ Done_("shrink_to_fit") =>
       /\ err = "none"
       /\ vec[Self] = pre[Self]
       /\ capacity = __N

C23_Witness ==
  /\ Done_("reserve") /\ __N = MaxN /\ call.n = __N /\ err = "none"
  /\ size(pre[1]) = 2

\* C24: in every state, in every live container, exactly the slots [0, size()) hold an
\* element object and the slots [size(), N) hold none, also after a call that failed
\* part-way.
C24_LiveExactlyBelowSize ==
  \A c \in Ids : alive[c] =>
    \A i \in Slots : (i < size(vec[c])) <=> (vec[c].data[i] # Dead)

C24_Witness ==
  /\ Done_("insert_n") /\ err = "bad_alloc" /\ __N = MaxN
  /\ size(pre[1]) = MaxN - 1 /\ size(vec[1]) = MaxN

\* C25: insert(position, first, last) with iterators that are not random access, and
\* append_range of an unsized range, when the source does not fit, end in bad_alloc with
\* size() == N: the old elements unchanged and in order at [0, old size), followed by the
\* first N - old size elements of the source (neither rotated to position nor removed).
C25_UnsizedBulkPartial ==
  (/\ pc = "done"
   /\ \/ call.op = "insert_iter" /\ ~call.ra
      \/ call.op = "append_range" /\ ~call.sized
   /\ size(pre[Self]) + Len(call.src) > __N)
  => LET old == pre[Self]
         new == vec[Self]
     IN /\ err = "bad_alloc"
        /\ size(new) = __N
        /\ \A i \in 0..(size(old) - 1) : new.data[i] = old.data[i]
        /\ \A i \in size(old)..(__N - 1) : new.data[i] = call.src[i - size(old) + 1]

C25_Witness ==
  /\ Done_("insert_iter") /\ ~call.ra /\ err = "bad_alloc" /\ __N = MaxN
  /\ size(pre[1]) = MaxN - 1 /\ Len(call.src) = 2 /\ call.pos = 0
  /\ call.src[1] # pre[1].data[0]

\* C26: t = rv, with rv a temporary equal to v, destroys every element t held and
\* constructs exactly rv.size() new ones; once the assignment has completed the element
\* objects alive are exactly those of v and of t, 2 * v.size() in all: none is left from
\* t's old contents or from the temporary.
C26_MoveAssignFromTemporary ==
  Done_("move_assign_temp") =>
    LET old == size(pre[Self])
        n == size(vec[Other])
    IN /\ err = "none"
       /\ operator_eq(vec[Self], vec[Other])
       /\ Len(ev) = old + n
       /\ \A i \in 1..old : ev[i].what = "destroy"
       /\ {ev[i].at : i \in 1..old} = 0..(old - 1)
       /\ \A i \in (old + 1)..Len(ev) : ev[i].what = "construct"
       /\ LiveObjects(vec[Self]) + LiveObjects(vec[Other]) + LiveObjects(tmp) = 2 * n

\* n <= 2^w - 1: a count field of w bits can hold n
Fits(n, w) == Below2Pow(n, w)

\* C27: the count field has the smallest of the widths 8, 16, 32, 64 that can represent
\* N: N <= 2^w - 1 and no narrower width can (N = 255 takes 8 bits, N = 65535 takes 16).
C27_SmallestWidth ==
  Done_("size_type") =>
    /\ ret \in {8, 16, 32, 64}
    /\ Fits(__N, ret)
    /\ \A w \in {8, 16, 32, 64} : w < ret => ~Fits(__N, w)

\* C28: emplace(position, x) and insert(position, x) with x referring to an element of
\* the container itself insert the value that element had before the call: the new
\* element is constructed at the old end() from x before the rotation moves anything.
C28_InsertOwnElement ==
  (/\ pc = "done" /\ call.op \in {"emplace_ref", "insert_copy_ref", "insert_move_ref"}
   /\ size(pre[Self]) < capacity)
  => LET old == pre[Self]
         new == vec[Self]
     IN /\ err = "none"
        /\ size(new) = size(old) + 1
        /\ new.data[call.pos] = old.data[call.n]
        /\ ev = <<[what |-> "construct", at |-> size(old)]>>
        /\ ret = begin(new) + call.pos

C28_Witness ==
  /\ Done_("emplace_ref") /\ err = "none" /\ __N = MaxN
  /\ size(pre[1]) = MaxN - 1 /\ call.pos = 0 /\ call.n = size(pre[1]) - 1
  /\ pre[1].data[0] # pre[1].data[call.n]

\* C29: clear(), resize(0) and erase(begin(), end()) do the same on every container:
\* size() == 0 and capacity() == N afterwards, every former element destroyed exactly
\* once, no exception, and N new elements can be added afterwards.
C29_ClearForms ==
  (/\ pc = "done"
   /\ \/ call.op = "clear"
      \/ call.op = "resize" /\ call.n = 0
      \/ call.op = "erase" /\ call.pos = begin(pre[Self]) /\ call.last = end(pre[Self]))
  => LET old == size(pre[Self])
         refill == emplace_back_n(Start(vec[Self]), __N, DefaultT)
     IN /\ err = "none"
        /\ size(vec[Self]) = 0
        /\ capacity = __N
        /\ vec[Self] = EmptyStorage
        /\ Len(ev) = old
        /\ \A k \in 1..old : ev[k].what = "destroy"
        /\ {ev[k].at : k \in 1..old} = 0..(old - 1)
        /\ refill.err = "none" /\ size(refill) = __N

C29_Witness ==
  /\ Done_("resize") /\ call.n = 0 /\ __N = MaxN /\ size(pre[1]) = MaxN
  /\ pre[1].data[0] # pre[1].data[1]

\* C30: a = a (copy assignment of a container to itself) leaves its size and its
\* elements as they were.
C30_SelfCopyAssign ==
  (Done_("copy_assign") /\ Self = Other) =>
    /\ size(vec[Self]) = size(pre[Self])
    /\ Elems(vec[Self]) = Elems(pre[Self])


\* C31: operator<=> is consistent with operator== and antisymmetric: (a <=> b) == 0
\* exactly when a == b, and (a <=> b) < 0 exactly when (b <=> a) > 0.
C31_CompareConsistent ==
  Done_("operator_cmp") =>
    LET a == pre[Self]
        b == pre[Other]
    IN /\ (ret = 0) = operator_eq(a, b)
       /\ (ret < 0) = (operator_cmp(b, a) > 0)


\* C32: constructing from, assigning from or inserting an iterator range of mutable
\* source elements copies them: after the call every source element still holds the
\* value it had before the call.
C32_SourceKept ==
  (/\ pc = "done"
   /\ call.op \in {"iter_construct", "assign_iter", "assign_range", "insert_iter",
                   "insert_range"}
   /\ call.mut)
  => source = call.src


\* C33: for a container with size() < N and a position p in [begin(), end()],
\* erase(insert(p, x)) leaves the container with the size and the elements, in order,
\* it had before the insert, and returns an iterator at the index of p.
C33_EraseInsert ==
  (Done_("erase_insert") /\ size(pre[Self]) < __N) =>
    /\ err = "none"
    /\ size(vec[Self]) = size(pre[Self])
    /\ Elems(vec[Self]) = Elems(pre[Self])
    /\ ret = begin(vec[Self]) + (call.pos - begin(pre[Self]))
C33_Witness ==
  /\ Done_("erase_insert") /\ __N = MaxN /\ size(pre[1]) = 2 /\ call.pos = 1
  /\ pre[1].data[0] # pre[1].data[1] /\ call.x # pre[1].data[1] /\ err = "none"


\* C34: assign is not all-or-nothing: assign(first, last), assign(initializer_list) and
\* assign_range given a random-access source longer than N fail with the capacity error
\* after the old contents have been destroyed, leaving the container empty; assign(n,
\* value) with n > N fails leaving size() == N with every element equal to value.
C34_AssignNotAtomic ==
  /\ (/\ pc = "done"
      /\ call.op \in {"assign_iter", "assign_range", "assign_il"}
      /\ call.ra /\ Len(call.src) > __N)
     => /\ err = "bad_alloc"
        /\ size(vec[Self]) = 0
        /\ LiveObjects(vec[Self]) = 0
        /\ Len(ev) = size(pre[Self])
        /\ \A k \in 1..Len(ev) : ev[k].what = "destroy"
  /\ (Done_("assign_n") /\ call.n > __N)
     => /\ err = "bad_alloc"
        /\ size(vec[Self]) = __N
        /\ \A i \in 0..(__N - 1) : vec[Self].data[i] = call.x
C34_Witness ==
  /\ Done_("assign_iter") /\ call.ra /\ __N = 1 /\ size(pre[1]) = 1
  /\ Len(call.src) = 2 /\ err = "bad_alloc" /\ size(vec[1]) = 0

====
